---- MODULE Spec2Model ----
(***************************************************************************)
(* Transparent recall of LTFS Data Management (src/server/TransRecall.cc): *)
(* the receiver loop TransRecall::run, the job writers TransRecall::addJob, *)
(* the executors TransRecall::execRequest / processFiles / recall, the     *)
(* shutdown cleanup TransRecall::cleanupEvents and the two queue tables    *)
(* JOB_QUEUE and REQUEST_QUEUE they share.                                 *)
(***************************************************************************)
EXTENDS Integers, Sequences, FiniteSets, TLC

\* ------------------------------------------------------------------ bounds
\* iterations of the receiver loop (calls of Connector::getEvents)
MaxEvents == 2
\* threads the scheduler may have running TransRecall::execRequest
MaxExec == 2
\* largest file size, in chunks of Const::READ_BUFFER_SIZE
MaxChunks == 1
\* threads of the server that use store transactions
MaxDbThreads == 3
\* calls of DataBase::beginTransaction per thread
MaxTrans == 2

\* --------------------------------------------------------------- constants
\* Const::UNSET: the start block Server::getStartBlock gives an unresolved name
UNSET == -1

\* inode numbers of the managed files (inum 0 is the malformed event)
Files == {1, 2, 3, 4}
Tapes == {"T1", "T2"}
\* a tape id no cartridge of the inventory has
NoTape == "XX"
TapeIds == Tapes \cup {NoTape}
\* attr.tapeId[0] of a file: files 1 and 2 are on the same tape
TapeOf(f) == IF f = 3 THEN "T2" ELSE "T1"
\* Server::getStartBlock of a file's tape object: file 2 lies behind file 1
StartBlock(f) == IF f = 2 THEN 2 ELSE 1
\* the access that raises a file's recall event: file 3 is read (recall to
\* premigrated), the others are written (recall to resident)
ToResident(f) == f # 3

\* FsObj::file_state
RESIDENT == "RESIDENT"
PREMIGRATED == "PREMIGRATED"
MIGRATED == "MIGRATED"
RECALLING_MIG == "RECALLING_MIG"
RECALLING_PREMIG == "RECALLING_PREMIG"
LiveStates == {RESIDENT, PREMIGRATED, MIGRATED}
FileStates == {RESIDENT, PREMIGRATED, MIGRATED, RECALLING_MIG, RECALLING_PREMIG}

\* DataBase::req_state
REQ_NEW == "REQ_NEW"
REQ_INPROGRESS == "REQ_INPROGRESS"

Conns == 1 .. MaxEvents
Execs == 1 .. MaxExec
DbThreads == 1 .. MaxDbThreads

VARIABLES
    fstate,             \* live migration state of each file (FsObj::getMigState)
    terminate,          \* Server::terminate
    forcedTerminate,    \* Server::forcedTerminate
    connectorTerminate, \* Connector::connectorTerminate
    pcRun,              \* position of TransRecall::run
    nIter,              \* iterations of the receiver loop so far
    recinfo,            \* run's local recinfo, kept across iterations
    reqmap,             \* run's local map tape id -> request number (0: no entry)
    globalReqNumber,    \* the global request counter
    wqr,                \* the addJob tasks of the writer pool, one per iteration
    jobs,               \* JOB_QUEUE, in insertion order
    requests,           \* REQUEST_QUEUE
    mtx,                \* Scheduler::mtx: 0 free, else the executor holding it
    cart,               \* cartridge state of each tape (LTFSDMCartridge)
    ex,                 \* the executor threads
    cleaned,            \* rows cleanupEvents has stepped over
    resp,               \* respondRecallEvent calls per connection handle
    accepted,           \* events delivered with conn_info != NULL and inum != 0
    trans_mutex,        \* DataBase::trans_mutex: 0 free, else the thread holding it
    inTransaction,      \* the connection DB has a transaction open
    dbt                 \* the threads that use store transactions

vars == <<fstate, terminate, forcedTerminate, connectorTerminate, pcRun, nIter,
          recinfo, reqmap, globalReqNumber, wqr, jobs, requests, mtx, cart, ex,
          cleaned, resp, accepted, trans_mutex, inTransaction, dbt>>

flags == <<terminate, forcedTerminate, connectorTerminate>>
dbvars == <<trans_mutex, inTransaction, dbt>>
recv == <<pcRun, nIter, recinfo, reqmap, globalReqNumber, accepted>>

\* ------------------------------------------------------------------ values
NullRecinfo == [conn |-> 0, inum |-> 0, toresident |-> FALSE]
IdleTask == [pc |-> "idle", recinfo |-> NullRecinfo, tapeId |-> NoTape, reqNum |-> 0,
             caught |-> "no", state |-> RESIDENT]
IdleExec == [pc |-> "idle", reqNum |-> 0, tapeId |-> NoTape, todo |-> <<>>,
             resplist |-> <<>>, toState |-> RESIDENT, size |-> 0, offset |-> 0,
             fsize |-> 0, tsize |-> 0, remaining |-> 0]

\* Connector::respondRecallEvent(recinfo, succeeded)
respondRecallEvent(r, conn, succeeded) ==
    IF succeeded THEN [r EXCEPT ![conn].ok = @ + 1]
    ELSE [r EXCEPT ![conn].fail = @ + 1]

Init ==
    /\ fstate = [f \in Files |-> IF f = 4 THEN RESIDENT
                                ELSE IF f = 2 THEN PREMIGRATED ELSE MIGRATED]
    /\ terminate = FALSE
    /\ forcedTerminate = FALSE
    /\ connectorTerminate = FALSE
    /\ pcRun = "loop"
    /\ nIter = 0
    /\ recinfo = NullRecinfo
    /\ reqmap = [t \in Tapes |-> 0]
    /\ globalReqNumber = 0
    /\ wqr = [k \in Conns |-> IdleTask]
    /\ jobs = <<>>
    /\ requests = {}
    /\ mtx = 0
    /\ cart = [t \in Tapes |-> "TAPE_MOUNTED"]
    /\ ex = [i \in Execs |-> IdleExec]
    /\ cleaned = {}
    /\ resp = [c \in Conns |-> [ok |-> 0, fail |-> 0]]
    /\ accepted = {}
    /\ trans_mutex = 0
    /\ inTransaction = FALSE
    /\ dbt = [t \in DbThreads |-> [pc |-> "idle", rc |-> "none", n |-> 0]]

\* ---------------------------------------------------------------- shutdown
\* the server's signal handling: graceful termination is requested first and
\* the connector's termination follows it.  Server::forcedTerminate is read
\* only by the copy loop of recall, so it is set while some recall copies: a
\* flag set earlier is read by that loop just the same
SetTerminate ==
    /\ ~terminate
    /\ terminate' = TRUE
    /\ UNCHANGED <<forcedTerminate, connectorTerminate>>
    /\ UNCHANGED <<fstate, recv, wqr, jobs, requests, mtx, cart, ex, cleaned, resp>>
    /\ UNCHANGED dbvars

SetForcedTerminate ==
    /\ \E i \in Execs : ex[i].pc = "copy"
    /\ ~forcedTerminate
    /\ forcedTerminate' = TRUE
    /\ UNCHANGED <<terminate, connectorTerminate>>
    /\ UNCHANGED <<fstate, recv, wqr, jobs, requests, mtx, cart, ex, cleaned, resp>>
    /\ UNCHANGED dbvars

SetConnectorTerminate ==
    /\ terminate
    /\ ~connectorTerminate
    /\ connectorTerminate' = TRUE
    /\ UNCHANGED <<terminate, forcedTerminate>>
    /\ UNCHANGED <<fstate, recv, wqr, jobs, requests, mtx, cart, ex, cleaned, resp>>
    /\ UNCHANGED dbvars

\* ---------------------------------------------------------------- receiver
\* reqmap[tapeId] assigned the next value of the counter on every event
reqmapLookupAlways(tapeId) == globalReqNumber + 1

\* reqmap[tapeId] after "if (reqmap.count(tapeId) == 0) reqmap[tapeId] = ++globalReqNumber"
reqmapLookup(tapeId) ==
    IF reqmap[tapeId] = 0 THEN globalReqNumber + 1 ELSE reqmap[tapeId]

\* the task wqr.enqueue hands to the pool: addJob(recinfo, tapeId, reqmap[tapeId])
enqueue(ev, tapeId, reqNum) ==
    [IdleTask EXCEPT !.pc = "try", !.recinfo = ev, !.tapeId = tapeId, !.reqNum = reqNum]

\* the loop body without the test of inum: an event with inum 0 goes on to
\* the try block, whose FsObj constructor throws
runBodyNoInumTest(ev, err) ==
    IF ev.conn = 0 THEN
        UNCHANGED <<reqmap, globalReqNumber, wqr, resp>>
    ELSE IF terminate \/ ev.inum = 0 \/ err THEN
        /\ resp' = respondRecallEvent(resp, ev.conn, FALSE)
        /\ UNCHANGED <<reqmap, globalReqNumber, wqr>>
    ELSE IF fstate[ev.inum] = RESIDENT THEN
        /\ resp' = respondRecallEvent(resp, ev.conn, TRUE)
        /\ UNCHANGED <<reqmap, globalReqNumber, wqr>>
    ELSE
        LET tapeId == TapeOf(ev.inum) IN
        /\ reqmap' = [reqmap EXCEPT ![tapeId] = reqmapLookup(tapeId)]
        /\ globalReqNumber' = IF reqmap[tapeId] = 0 THEN globalReqNumber + 1
                              ELSE globalReqNumber
        /\ wqr' = [wqr EXCEPT ![nIter + 1] = enqueue(ev, tapeId, reqmapLookup(tapeId))]
        /\ UNCHANGED resp

\* the loop body after getEvents, on recinfo = ev; err: an FsObj call of the
\* try block throws
runBody(ev, err) ==
    IF ev.conn = 0 THEN
        UNCHANGED <<reqmap, globalReqNumber, wqr, resp>>
    ELSE IF terminate THEN
        /\ resp' = respondRecallEvent(resp, ev.conn, FALSE)
        /\ UNCHANGED <<reqmap, globalReqNumber, wqr>>
    ELSE IF ev.inum = 0 THEN
        UNCHANGED <<reqmap, globalReqNumber, wqr, resp>>
    ELSE IF err THEN
        /\ resp' = respondRecallEvent(resp, ev.conn, FALSE)
        /\ UNCHANGED <<reqmap, globalReqNumber, wqr>>
    ELSE IF fstate[ev.inum] = RESIDENT THEN
        \* finishRecall(RESIDENT) leaves the resident file resident
        /\ resp' = respondRecallEvent(resp, ev.conn, TRUE)
        /\ UNCHANGED <<reqmap, globalReqNumber, wqr>>
    ELSE
        LET tapeId == TapeOf(ev.inum) IN
        /\ reqmap' = [reqmap EXCEPT ![tapeId] = reqmapLookup(tapeId)]
        /\ globalReqNumber' = IF reqmap[tapeId] = 0 THEN globalReqNumber + 1
                              ELSE globalReqNumber
        /\ wqr' = [wqr EXCEPT ![nIter + 1] = enqueue(ev, tapeId, reqmapLookup(tapeId))]
        /\ UNCHANGED resp

\* what "recinfo = connector->getEvents()" leaves in recinfo: when getEvents
\* throws, the catch only logs and recinfo keeps the previous event
getEvents(thrown, isnull, inum) ==
    IF thrown THEN recinfo
    ELSE IF isnull THEN NullRecinfo
    ELSE [conn |-> nIter + 1, inum |-> inum, toresident |-> ToResident(inum)]

\* one iteration of "while (Connector::connectorTerminate == false)"
run ==
    /\ pcRun = "loop"
    /\ ~connectorTerminate
    /\ nIter < MaxEvents
    /\ \E thrown, isnull, err \in BOOLEAN, inum \in {0} \cup Files :
        LET ev == getEvents(thrown, isnull, inum) IN
        /\ recinfo' = ev
        /\ accepted' = IF ~thrown /\ ev.conn # 0 /\ ev.inum # 0
                       THEN accepted \cup {ev.conn} ELSE accepted
        /\ runBody(ev, err)
    /\ nIter' = nIter + 1
    /\ UNCHANGED <<pcRun, fstate, flags, jobs, requests, mtx, cart, ex, cleaned>>
    /\ UNCHANGED dbvars

\* the loop ends: connector->endTransRecalls()
runEnd ==
    /\ pcRun = "loop"
    /\ connectorTerminate
    /\ pcRun' = "drain"
    /\ UNCHANGED <<nIter, recinfo, reqmap, globalReqNumber, accepted>>
    /\ UNCHANGED <<fstate, flags, wqr, jobs, requests, mtx, cart, ex, cleaned, resp>>
    /\ UNCHANGED dbvars

\* run going on to cleanupEvents without the wait for the writer pool
waitCompletionSkipped ==
    /\ pcRun = "drain"
    /\ pcRun' = "cleanup"
    /\ UNCHANGED <<nIter, recinfo, reqmap, globalReqNumber, accepted>>
    /\ UNCHANGED <<fstate, flags, wqr, jobs, requests, mtx, cart, ex, cleaned, resp>>
    /\ UNCHANGED dbvars

\* wqr.waitCompletion(Const::UNSET): every enqueued addJob has ended
waitCompletion ==
    /\ pcRun = "drain"
    /\ \A k \in Conns : wqr[k].pc \in {"idle", "done", "notreg", "threw"}
    /\ pcRun' = "cleanup"
    /\ UNCHANGED <<nIter, recinfo, reqmap, globalReqNumber, accepted>>
    /\ UNCHANGED <<fstate, flags, wqr, jobs, requests, mtx, cart, ex, cleaned, resp>>
    /\ UNCHANGED dbvars

\* REMAINING_JOBS: the rows of JOB_QUEUE the cursor has not stepped over yet
remainingJobs == {i \in DOMAIN jobs : jobs[i].rid \notin cleaned}

\* one step of the cursor of cleanupEvents, or its end
cleanupEvents ==
    /\ pcRun = "cleanup"
    /\ IF remainingJobs = {} THEN
            /\ pcRun' = "done"
            /\ UNCHANGED <<cleaned, resp>>
       ELSE LET i == CHOOSE j \in remainingJobs : \A l \in remainingJobs : j <= l IN
            /\ resp' = respondRecallEvent(resp, jobs[i].conn, FALSE)
            /\ cleaned' = cleaned \cup {jobs[i].rid}
            /\ UNCHANGED pcRun
    /\ UNCHANGED <<nIter, recinfo, reqmap, globalReqNumber, accepted>>
    /\ UNCHANGED <<fstate, flags, wqr, jobs, requests, mtx, cart, ex>>
    /\ UNCHANGED dbvars

\* -------------------------------------------------------------- job writer
\* a task that has ended: pc "done" (addJob returned after its response or
\* its upsert), "notreg" (the return for a non-regular file) or "threw"
DoneTask == [IdleTask EXCEPT !.pc = "done"]

\* the try block of addJob: stat, getMigState, getAttribute, getTapeName.
\* When a call throws, the catch logs and falls through to the insert with
\* tapeName empty; caught names the call that threw: "stat" (FsObj fso, stat
\* or getMigState: state and attr were never assigned), "attr" (getAttribute:
\* attr was never assigned) or "name" (getTapeName)
addJobTry(k) ==
    LET t == wqr[k]
        f == t.recinfo.inum IN
    /\ t.pc = "try"
    /\ \/ \* !S_ISREG(statbuf.st_mode): return
          /\ wqr' = [wqr EXCEPT ![k] = [DoneTask EXCEPT !.pc = "notreg"]]
          /\ UNCHANGED resp
       \/ \* no exception
          IF fstate[f] = RESIDENT THEN
              /\ resp' = respondRecallEvent(resp, t.recinfo.conn, TRUE)
              /\ wqr' = [wqr EXCEPT ![k] = DoneTask]
          ELSE
              /\ wqr' = [wqr EXCEPT ![k].pc = "insert", ![k].state = fstate[f]]
              /\ UNCHANGED resp
       \/ \* FsObj fso(recinfo), stat or getMigState throws
          /\ wqr' = [wqr EXCEPT ![k].pc = "insert", ![k].caught = "stat"]
          /\ UNCHANGED resp
       \/ \* getAttribute or getTapeName throws
          /\ fstate[f] # RESIDENT
          /\ \E c \in {"attr", "name"} :
                wqr' = [wqr EXCEPT ![k].pc = "insert", ![k].caught = c,
                                   ![k].state = fstate[f]]
          /\ UNCHANGED resp
    /\ UNCHANGED <<fstate, flags, recv, jobs, requests, mtx, cart, ex, cleaned>>
    /\ UNCHANGED dbvars

\* the values "state" can hold when ADD_JOB reads it: the state getMigState
\* returned, or any value when it was never assigned
stateRead(k) == IF wqr[k].caught = "stat" THEN FileStates ELSE {wqr[k].state}

\* Server::getStartBlock(tapeName): UNSET for the empty name
getStartBlock(k) ==
    IF wqr[k].caught # "no" THEN UNSET ELSE StartBlock(wqr[k].recinfo.inum)

\* the JOB_QUEUE row ADD_JOB inserts
jobRow(k, state) ==
    LET t == wqr[k] IN
    [rid |-> k, conn |-> t.recinfo.conn, inum |-> t.recinfo.inum,
     reqNum |-> t.reqNum, tapeId |-> t.tapeId, fileState |-> state,
     toState |-> IF t.recinfo.toresident THEN RESIDENT ELSE PREMIGRATED,
     startBlock |-> getStartBlock(k)]

\* JOB_QUEUE_UNIQUE_UID: UNIQUE (FS_ID, I_GEN, I_NUM, REPL_NUM)
uniqueUid(inum) == \A n \in DOMAIN jobs : jobs[n].inum # inum

\* stmt(ADD_JOB) ... doall(): outside Scheduler::mtx; a constraint violation
\* throws out of addJob
addJobInsert(k) ==
    /\ wqr[k].pc = "insert"
    /\ IF uniqueUid(wqr[k].recinfo.inum) THEN
            /\ \E state \in stateRead(k) : jobs' = Append(jobs, jobRow(k, state))
            /\ wqr' = [wqr EXCEPT ![k].pc = "upsert", ![k].state = RESIDENT]
       ELSE /\ wqr' = [wqr EXCEPT ![k] = [DoneTask EXCEPT !.pc = "threw"]]
            /\ UNCHANGED jobs
    /\ UNCHANGED <<fstate, flags, recv, requests, mtx, cart, ex, cleaned, resp>>
    /\ UNCHANGED dbvars

\* the values attr.tapeId[0] can hold when ADD_REQUEST reads it: the first
\* tape of the file's attribute, or any value when attr was never assigned
attrTapeRead(k) ==
    IF wqr[k].caught \in {"stat", "attr"} THEN TapeIds
    ELSE {TapeOf(wqr[k].recinfo.inum)}

\* CHECK_REQUEST_EXISTS << reqNum
reqExists(reqNum) == \E r \in requests : r.reqNum = reqNum

\* CHANGE_REQUEST_TO_NEW << REQ_NEW << reqNum << tapeId
changeRequestToNew(reqNum, tapeId) ==
    {IF r.reqNum = reqNum /\ r.tapeId = tapeId THEN [r EXCEPT !.state = REQ_NEW] ELSE r
        : r \in requests}

\* ADD_REQUEST bound to the global request counter instead of reqNum
addRequestGlobal(reqNum, attrTape) ==
    requests \cup {[reqNum |-> globalReqNumber, tapeId |-> attrTape, state |-> REQ_NEW]}

\* ADD_REQUEST << TRARECALL << reqNum << attr.tapeId[0] << time << REQ_NEW
addRequest(reqNum, attrTape) ==
    requests \cup {[reqNum |-> reqNum, tapeId |-> attrTape, state |-> REQ_NEW]}

\* the request upsert of addJob, under std::unique_lock lock(Scheduler::mtx)
addJobUpsert(k) ==
    LET t == wqr[k] IN
    /\ t.pc = "upsert"
    /\ mtx = 0
    /\ IF reqExists(t.reqNum) THEN requests' = changeRequestToNew(t.reqNum, t.tapeId)
       ELSE \E attrTape \in attrTapeRead(k) : requests' = addRequest(t.reqNum, attrTape)
    /\ wqr' = [wqr EXCEPT ![k] = DoneTask]
    /\ UNCHANGED <<fstate, flags, recv, jobs, mtx, cart, ex, cleaned, resp>>
    /\ UNCHANGED dbvars


\* --------------------------------------------------------------- scheduler
\* UPDATE_REC_REQUEST << REQ_INPROGRESS << reqNum << tapeId
updateRecRequest(reqNum, tapeId) ==
    {IF r.reqNum = reqNum /\ r.tapeId = tapeId THEN [r EXCEPT !.state = REQ_INPROGRESS]
     ELSE r : r \in requests}

\* the tape of request r is a cartridge of the inventory that no request uses
tapeResAvail(r) == r.tapeId \in Tapes /\ cart[r.tapeId] = "TAPE_MOUNTED"

\* Scheduler::run, under Scheduler::mtx: a REQ_NEW request whose tape is
\* available is set in progress, its cartridge in use, and the thread i
\* (the first idle one) runs TransRecall::execRequest(reqNum, tapeId).  Once
\* termination is requested the requests in flight finish and no other starts
schedule(i, r) ==
    /\ ~terminate
    /\ mtx = 0
    /\ r.state = REQ_NEW
    /\ tapeResAvail(r)
    /\ ex[i].pc = "idle"
    /\ \A j \in Execs : j < i => ex[j].pc # "idle"
    /\ requests' = updateRecRequest(r.reqNum, r.tapeId)
    /\ cart' = [cart EXCEPT ![r.tapeId] = "TAPE_INUSE"]
    /\ ex' = [ex EXCEPT ![i] = [IdleExec EXCEPT !.pc = "setRecalling",
                                                !.reqNum = r.reqNum, !.tapeId = r.tapeId]]
    /\ UNCHANGED <<fstate, flags, recv, wqr, jobs, mtx, cleaned, resp>>
    /\ UNCHANGED dbvars

\* ---------------------------------------------------------------- executor
\* SET_RECALLING without its condition on the state the row has
setRecallingAnyState(q, to, reqNum, from, tapeId) ==
    [n \in DOMAIN q |->
        IF q[n].reqNum = reqNum /\ q[n].tapeId = tapeId
        THEN [q[n] EXCEPT !.fileState = to] ELSE q[n]]

\* SET_RECALLING << to << reqNum << from << tapeId
setRecalling(q, to, reqNum, from, tapeId) ==
    [n \in DOMAIN q |->
        IF q[n].reqNum = reqNum /\ q[n].fileState = from /\ q[n].tapeId = tapeId
        THEN [q[n] EXCEPT !.fileState = to] ELSE q[n]]

\* the rows SELECT_JOBS, DELETE_JOBS name: reqNum, RECALLING_MIG or
\* RECALLING_PREMIG, tapeId
isRecalling(row, reqNum, tapeId) ==
    /\ row.reqNum = reqNum
    /\ row.fileState \in {RECALLING_MIG, RECALLING_PREMIG}
    /\ row.tapeId = tapeId

\* ORDER BY START_BLOCK: ascending, rows of one start block in insertion order
RECURSIVE orderByStartBlock(_)
orderByStartBlock(s) ==
    IF s = <<>> THEN <<>>
    ELSE LET n == CHOOSE m \in DOMAIN s : \A l \in DOMAIN s :
                    \/ s[m].startBlock < s[l].startBlock
                    \/ s[m].startBlock = s[l].startBlock /\ m <= l
         IN <<s[n]>> \o orderByStartBlock(SubSeq(s, 1, n - 1) \o SubSeq(s, n + 1, Len(s)))

\* SELECT_JOBS whose rows come in insertion order
selectJobsUnordered(q, reqNum, tapeId) ==
    SelectSeq(q, LAMBDA row : isRecalling(row, reqNum, tapeId))

\* SELECT_JOBS << reqNum << RECALLING_MIG << RECALLING_PREMIG << tapeId
selectJobs(q, reqNum, tapeId) ==
    orderByStartBlock(SelectSeq(q, LAMBDA row : isRecalling(row, reqNum, tapeId)))

\* DELETE_JOBS that deletes no row
deleteJobsNone(reqNum, tapeId) == jobs

\* DELETE_JOBS without its condition on the state of the row
deleteJobsOfRequest(reqNum, tapeId) ==
    SelectSeq(jobs, LAMBDA row : ~(row.reqNum = reqNum /\ row.tapeId = tapeId))

\* DELETE_JOBS << reqNum << RECALLING_MIG << RECALLING_PREMIG << tapeId
deleteJobs(reqNum, tapeId) ==
    SelectSeq(jobs, LAMBDA row : ~isRecalling(row, reqNum, tapeId))

\* COUNT_REMAINING_JOBS << reqNum << tapeId
countRemainingJobs(reqNum, tapeId) ==
    Cardinality({n \in DOMAIN jobs : jobs[n].reqNum = reqNum /\ jobs[n].tapeId = tapeId})

\* DELETE_REQUEST that deletes no row
deleteRequestNone(reqNum, tapeId) == requests

\* DELETE_REQUEST << reqNum << tapeId
deleteRequest(reqNum, tapeId) ==
    {r \in requests : ~(r.reqNum = reqNum /\ r.tapeId = tapeId)}

\* execRequest setting the cartridge TAPE_MOUNTED before it calls processFiles
pfSetRecallingFreesTape(i) ==
    LET e == ex[i] IN
    /\ e.pc = "setRecalling"
    /\ jobs' = setRecalling(setRecalling(jobs, RECALLING_MIG, e.reqNum, MIGRATED, e.tapeId),
                            RECALLING_PREMIG, e.reqNum, PREMIGRATED, e.tapeId)
    /\ ex' = [ex EXCEPT ![i].pc = "step", ![i].todo = selectJobs(jobs', e.reqNum, e.tapeId)]
    /\ cart' = [cart EXCEPT ![e.tapeId] = "TAPE_MOUNTED"]
    /\ UNCHANGED <<fstate, flags, recv, wqr, requests, mtx, cleaned, resp>>
    /\ UNCHANGED dbvars

\* processFiles taking Scheduler::mtx for its claim and keeping it
pfSetRecallingLocked(i) ==
    LET e == ex[i] IN
    /\ e.pc = "setRecalling"
    /\ mtx = 0
    /\ mtx' = i
    /\ jobs' = setRecalling(setRecalling(jobs, RECALLING_MIG, e.reqNum, MIGRATED, e.tapeId),
                            RECALLING_PREMIG, e.reqNum, PREMIGRATED, e.tapeId)
    /\ ex' = [ex EXCEPT ![i].pc = "step", ![i].todo = selectJobs(jobs', e.reqNum, e.tapeId)]
    /\ UNCHANGED <<fstate, flags, recv, wqr, requests, cart, cleaned, resp>>
    /\ UNCHANGED dbvars

\* processFiles, the claim: SET_RECALLING of the MIGRATED rows, SET_RECALLING
\* of the PREMIGRATED rows, SELECT_JOBS; Scheduler::mtx is not taken
pfSetRecalling(i) ==
    LET e == ex[i] IN
    /\ e.pc = "setRecalling"
    /\ jobs' = setRecalling(setRecalling(jobs, RECALLING_MIG, e.reqNum, MIGRATED, e.tapeId),
                            RECALLING_PREMIG, e.reqNum, PREMIGRATED, e.tapeId)
    /\ ex' = [ex EXCEPT ![i].pc = "step", ![i].todo = selectJobs(jobs', e.reqNum, e.tapeId)]
    /\ UNCHANGED <<fstate, flags, recv, wqr, requests, mtx, cart, cleaned, resp>>
    /\ UNCHANGED dbvars

\* the row "while (stmt.step(...))" hands to the loop body
stepRow(todo) == Head(todo)

\* a failed recall that ends the loop of processFiles: the rows behind it are
\* not stepped to
pushBackAbort(i, succeeded, fin, differ) ==
    LET row == Head(ex[i].todo) IN
    [ex EXCEPT ![i].pc = "step", ![i].todo = IF succeeded THEN Tail(@) ELSE <<>>,
               ![i].size = 0, ![i].offset = 0,
               ![i].toState = RESIDENT, ![i].fsize = 0, ![i].tsize = 0,
               ![i].resplist = Append(@, [conn |-> row.conn, succeeded |-> succeeded,
                                          inum |-> row.inum, startBlock |-> row.startBlock,
                                          toState |-> row.toState, fin |-> fin,
                                          differ |-> differ])]

\* resplist.push_back((respinfo_t) { recinfo, succeeded }); fin records what
\* recall did to the file: "none", "terminated" (the copy loop read
\* Server::forcedTerminate), "already" (found resident) or the state
\* finishRecall set; differ: the sizes of the tape object and of the file
\* were not the same
pushBack(i, succeeded, fin, differ) ==
    LET row == stepRow(ex[i].todo) IN
    [ex EXCEPT ![i].pc = "step", ![i].todo = Tail(@), ![i].size = 0, ![i].offset = 0,
               ![i].toState = RESIDENT, ![i].fsize = 0, ![i].tsize = 0,
               ![i].resplist = Append(@, [conn |-> row.conn, succeeded |-> succeeded,
                                          inum |-> row.inum, startBlock |-> row.startBlock,
                                          toState |-> row.toState, fin |-> fin,
                                          differ |-> differ])]

\* recall: target.finishRecall(toState); if (toState == RESIDENT)
\* target.remAttribute();  either call may throw into the catch of recall
finishRecall(i, toState, differ) ==
    LET f == stepRow(ex[i].todo).inum IN
    \/ /\ fstate' = [fstate EXCEPT ![f] = toState]
       /\ ex' = pushBack(i, TRUE, toState, differ)
    \/ \* finishRecall throws
       /\ ex' = pushBack(i, FALSE, "none", differ)
       /\ UNCHANGED fstate
    \/ \* remAttribute throws
       /\ toState = RESIDENT
       /\ fstate' = [fstate EXCEPT ![f] = toState]
       /\ ex' = pushBack(i, FALSE, toState, differ)

\* processFiles: the loop's next row, and recall up to its copy loop
recallBegin(i) ==
    LET row == stepRow(ex[i].todo)
        curstate == fstate[row.inum] IN
    /\ ex[i].pc = "step"
    /\ ex[i].todo # <<>>
    /\ \/ \* FsObj target(recinfo), the lock or getMigState throws
          /\ ex' = pushBack(i, FALSE, "none", FALSE)
          /\ UNCHANGED fstate
       \/ /\ curstate = RESIDENT
          /\ ex' = pushBack(i, TRUE, "already", FALSE)
          /\ UNCHANGED fstate
       \/ \* open(tapeName) fails, or getTapeName, stat or prepareRecall throws
          /\ curstate = MIGRATED
          /\ ex' = pushBack(i, FALSE, "none", FALSE)
          /\ UNCHANGED fstate
       \/ \* fsize: statbuf.st_size, tsize: the size of the tape object,
          \* fstatOk: fstat(fd, &statbuf_tape) == 0
          /\ curstate = MIGRATED
          /\ \E fsize, tsize \in 0 .. MaxChunks, fstatOk \in BOOLEAN :
              LET mismatch == fstatOk /\ tsize # fsize
                  size == IF mismatch THEN tsize ELSE fsize
                  toState == IF mismatch THEN RESIDENT ELSE row.toState IN
              IF size = 0 THEN finishRecall(i, toState, tsize # fsize)
              ELSE /\ ex' = [ex EXCEPT ![i].pc = "copy", ![i].toState = toState,
                                       ![i].size = size, ![i].offset = 0,
                                       ![i].fsize = fsize, ![i].tsize = tsize]
                   /\ UNCHANGED fstate
       \/ /\ curstate = PREMIGRATED
          /\ finishRecall(i, row.toState, FALSE)
    /\ UNCHANGED <<flags, recv, wqr, jobs, requests, mtx, cart, cleaned, resp>>
    /\ UNCHANGED dbvars

\* recall: one pass of "while (offset < statbuf.st_size)"
recallCopy(i) ==
    /\ ex[i].pc = "copy"
    /\ IF forcedTerminate THEN
            /\ ex' = pushBack(i, FALSE, "terminated", ex[i].tsize # ex[i].fsize)
            /\ UNCHANGED fstate
       ELSE \/ \* rsize == 0: break
               finishRecall(i, ex[i].toState, ex[i].tsize # ex[i].fsize)
            \/ \* rsize == -1, or wsize != rsize
               /\ ex' = pushBack(i, FALSE, "none", ex[i].tsize # ex[i].fsize)
               /\ UNCHANGED fstate
            \/ \* offset += rsize
               IF ex[i].offset + 1 < ex[i].size THEN
                    /\ ex' = [ex EXCEPT ![i].offset = @ + 1]
                    /\ UNCHANGED fstate
               ELSE finishRecall(i, ex[i].toState, ex[i].tsize # ex[i].fsize)
    /\ UNCHANGED <<flags, recv, wqr, jobs, requests, mtx, cart, cleaned, resp>>
    /\ UNCHANGED dbvars

\* for (respinfo_t respinfo : resplist) respondRecallEvent(recinfo, succeeded)
RECURSIVE respondAll(_, _)
respondAll(r, list) ==
    IF list = <<>> THEN r
    ELSE respondAll(respondRecallEvent(r, Head(list).conn, Head(list).succeeded), Tail(list))

\* processFiles after the loop: stmt.finalize(), DELETE_JOBS, the responses
pfDeleteJobs(i) ==
    /\ ex[i].pc = "step"
    /\ ex[i].todo = <<>>
    /\ jobs' = deleteJobs(ex[i].reqNum, ex[i].tapeId)
    /\ resp' = respondAll(resp, ex[i].resplist)
    /\ ex' = [ex EXCEPT ![i].pc = "lock", ![i].resplist = <<>>]
    /\ UNCHANGED <<fstate, flags, recv, wqr, requests, mtx, cart, cleaned>>
    /\ UNCHANGED dbvars

\* execRequest after processFiles: the lock of Scheduler::mtx, the cartridge
\* set TAPE_MOUNTED and its drive free, COUNT_REMAINING_JOBS
execRequestLock(i) ==
    /\ ex[i].pc = "lock"
    /\ mtx = 0
    /\ mtx' = i
    /\ cart' = [cart EXCEPT ![ex[i].tapeId] = "TAPE_MOUNTED"]
    /\ ex' = [ex EXCEPT ![i].pc = "end",
                        ![i].remaining = countRemainingJobs(ex[i].reqNum, ex[i].tapeId)]
    /\ UNCHANGED <<fstate, flags, recv, wqr, jobs, requests, cleaned, resp>>
    /\ UNCHANGED dbvars

\* execRequest with the test of "remaining" inverted
execRequestEndInverted(i) ==
    /\ ex[i].pc = "end"
    /\ requests' = IF ex[i].remaining = 0
                   THEN changeRequestToNew(ex[i].reqNum, ex[i].tapeId)
                   ELSE deleteRequest(ex[i].reqNum, ex[i].tapeId)
    /\ mtx' = 0
    /\ ex' = [ex EXCEPT ![i] = IdleExec]
    /\ UNCHANGED <<fstate, flags, recv, wqr, jobs, cart, cleaned, resp>>
    /\ UNCHANGED dbvars

\* execRequest: CHANGE_REQUEST_TO_NEW or DELETE_REQUEST, notify_one, unlock
execRequestEnd(i) ==
    /\ ex[i].pc = "end"
    /\ requests' = IF ex[i].remaining # 0
                   THEN changeRequestToNew(ex[i].reqNum, ex[i].tapeId)
                   ELSE deleteRequest(ex[i].reqNum, ex[i].tapeId)
    /\ mtx' = 0
    /\ ex' = [ex EXCEPT ![i] = IdleExec]
    /\ UNCHANGED <<fstate, flags, recv, wqr, jobs, cart, cleaned, resp>>
    /\ UNCHANGED dbvars

\* ------------------------------------------------------ store transactions
\* everything but the store transaction lock and its users
server == <<fstate, flags, recv, wqr, jobs, requests, mtx, cart, ex, cleaned, resp>>

\* DataBase::beginTransaction that keeps trans_mutex when BEGIN fails
beginTransactionKeepsLock(t) ==
    /\ dbt[t].pc = "idle"
    /\ dbt[t].n < MaxTrans
    /\ trans_mutex = 0
    /\ trans_mutex' = t
    /\ \E ok \in BOOLEAN :
          /\ ok => ~inTransaction
          /\ inTransaction' = (inTransaction \/ ok)
          /\ dbt' = [dbt EXCEPT ![t] = [pc |-> IF ok THEN "trans" ELSE "idle",
                                        rc |-> IF ok THEN "began" ELSE "beginThrew",
                                        n |-> @.n + 1]]
    /\ UNCHANGED server

\* DataBase::beginTransaction called by thread t: trans_mutex.lock(), then
\* "BEGIN TRANSACTION;", which fails on a connection that has a transaction
\* open and may fail otherwise; rc != SQLITE_OK: unlock and throw
beginTransaction(t) ==
    /\ dbt[t].pc = "idle"
    /\ dbt[t].n < MaxTrans
    /\ trans_mutex = 0
    /\ \E ok \in BOOLEAN :
          /\ ok => ~inTransaction
          /\ trans_mutex' = IF ok THEN t ELSE 0
          /\ inTransaction' = (inTransaction \/ ok)
          /\ dbt' = [dbt EXCEPT ![t] = [pc |-> IF ok THEN "trans" ELSE "idle",
                                        rc |-> IF ok THEN "began" ELSE "beginThrew",
                                        n |-> @.n + 1]]
    /\ UNCHANGED server

\* DataBase::endTransaction called by the thread whose beginTransaction
\* returned: "END TRANSACTION;", trans_mutex.unlock(), then the throw when
\* rc != SQLITE_OK; a failed END may leave the transaction open
endTransaction(t) ==
    /\ dbt[t].pc = "trans"
    /\ \E ok \in BOOLEAN :
          /\ inTransaction' \in IF ok THEN {FALSE} ELSE BOOLEAN
          /\ dbt' = [dbt EXCEPT ![t].pc = "idle",
                                ![t].rc = IF ok THEN "ended" ELSE "endThrew"]
    /\ trans_mutex' = 0
    /\ UNCHANGED server

\* ----------------------------------------------------------- specification
Next ==
    \/ SetTerminate
    \/ SetForcedTerminate
    \/ SetConnectorTerminate
    \/ run
    \/ runEnd
    \/ waitCompletion
    \/ cleanupEvents
    \/ \E k \in Conns : addJobTry(k)
    \/ \E k \in Conns : addJobInsert(k)
    \/ \E k \in Conns : addJobUpsert(k)
    \/ \E i \in Execs : \E r \in requests : schedule(i, r)
    \/ \E i \in Execs : pfSetRecalling(i)
    \/ \E i \in Execs : recallBegin(i)
    \/ \E i \in Execs : recallCopy(i)
    \/ \E i \in Execs : pfDeleteJobs(i)
    \/ \E i \in Execs : execRequestLock(i)
    \/ \E i \in Execs : execRequestEnd(i)

Spec == Init /\ [][Next]_vars

\* the threads of the executors run on, and the scheduler, woken by every
\* notify_one, gets Scheduler::mtx and dispatches a request that stays ready
Fairness ==
    /\ \A i \in Execs : WF_vars(pfSetRecalling(i))
    /\ \A i \in Execs : WF_vars(recallBegin(i))
    /\ \A i \in Execs : WF_vars(recallCopy(i))
    /\ \A i \in Execs : WF_vars(pfDeleteJobs(i))
    /\ \A i \in Execs : SF_vars(execRequestLock(i))
    /\ \A i \in Execs : WF_vars(execRequestEnd(i))
    /\ \A t \in Tapes : SF_vars(\E i \in Execs : \E r \in requests :
                                    r.tapeId = t /\ schedule(i, r))

\* the server while no termination is requested.  The shutdown steps write
\* neither JOB_QUEUE nor REQUEST_QUEUE: a set terminate flag makes run answer
\* an event with failure, as a throwing FsObj call does, and a set
\* forcedTerminate flag makes recall fail, as a read error does
NextRunning ==
    \/ run
    \/ \E k \in Conns : addJobTry(k)
    \/ \E k \in Conns : addJobInsert(k)
    \/ \E k \in Conns : addJobUpsert(k)
    \/ \E i \in Execs : \E r \in requests : schedule(i, r)
    \/ \E i \in Execs : pfSetRecalling(i)
    \/ \E i \in Execs : recallBegin(i)
    \/ \E i \in Execs : recallCopy(i)
    \/ \E i \in Execs : pfDeleteJobs(i)
    \/ \E i \in Execs : execRequestLock(i)
    \/ \E i \in Execs : execRequestEnd(i)

FairSpec == Init /\ [][NextRunning]_vars /\ Fairness

\* the threads that use store transactions, each calling beginTransaction
\* and, when it has returned, endTransaction
NextDb ==
    \/ \E t \in DbThreads : beginTransaction(t)
    \/ \E t \in DbThreads : endTransaction(t)

DbSpec == Init /\ [][NextDb]_vars

\* ------------------------------------------------------------------ claims
\* respondRecallEvent calls made so far for connection handle c
responses(c) == resp[c].ok + resp[c].fail

\* every call of getEvents so far returned an event with a connection handle
\* and an inode number, so that the receiver has handled no event twice
allDelivered == \A k \in 1 .. nIter : k \in accepted

\* C1: no recall event ever receives more than one response, also when
\* cleanupEvents runs while an executor has claimed a job of the event
\* (stated for the runs in which getEvents never failed)
C1_AtMostOneResponse ==
    allDelivered => \A c \in Conns : responses(c) <= 1

\* TransRecall::run has returned and the last executor has ended
shutdownComplete ==
    /\ pcRun = "done"
    /\ \A i \in Execs : ex[i].pc = "idle"

\* no addJob call has found its file not to be a regular file
allRegular == \A k \in Conns : wqr[k].pc # "notreg"

\* C2: once shutdown has completed, every accepted event (connection handle
\* non-null, inum # 0) has received its response: responses equal accepted
\* events, whatever path the event took (stated for regular files and for
\* the runs in which getEvents never failed)
C2_EveryAcceptedAnswered ==
    (shutdownComplete /\ allDelivered /\ allRegular) =>
        \A c \in accepted : responses(c) = 1

\* the start blocks of the rows one processFiles call has recalled, in order
recalledBlocks(i) == [n \in DOMAIN ex[i].resplist |-> ex[i].resplist[n].startBlock]

\* C3: within one call of processFiles the jobs are recalled in nondecreasing
\* start_block order, whatever the order their events arrived in
C3_RecalledInBlockOrder ==
    \A i \in Execs : \A m, n \in DOMAIN ex[i].resplist :
        m < n => recalledBlocks(i)[m] <= recalledBlocks(i)[n]

\* one processFiles call has recalled two jobs, the later-arrived first
C3_Witness ==
    \E i \in Execs :
        /\ Len(ex[i].resplist) = 2
        /\ ex[i].resplist[1].conn > ex[i].resplist[2].conn
        /\ ex[i].resplist[1].startBlock < ex[i].resplist[2].startBlock

\* C4: at every moment REQUEST_QUEUE holds at most one transparent-recall row
\* per tape id
C4_OneRequestPerTape ==
    \A r1, r2 \in requests : r1.tapeId = r2.tapeId => r1 = r2

\* no row of JOB_QUEUE was written by an addJob that had caught an exception
noCaughtRow == \A n \in DOMAIN jobs : jobs[n].startBlock # UNSET

\* the rows of (reqNum, tapeId) no processFiles call has claimed yet
unclaimed(reqNum, tapeId) ==
    {n \in DOMAIN jobs : /\ jobs[n].reqNum = reqNum
                         /\ jobs[n].tapeId = tapeId
                         /\ jobs[n].fileState \in {MIGRATED, PREMIGRATED}}

\* C6: whenever a request row is REQ_NEW and Scheduler::mtx is free, JOB_QUEUE
\* holds at least one unclaimed job (MIGRATED or PREMIGRATED) of its request
\* number and tape id (stated for the queues no failed addJob has written to)
C6_NewRequestHasJob ==
    (mtx = 0 /\ noCaughtRow) =>
        \A r \in requests : r.state = REQ_NEW => unclaimed(r.reqNum, r.tapeId) # {}

inProcessFiles(i) == ex[i].pc \in {"setRecalling", "step", "copy"}

\* C8: for every (reqNum, tapeId) at most one executor is processing files at
\* any instant, although addJob sets the request back to REQ_NEW meanwhile
C8_OneExecutorPerRequest ==
    \A i, j \in Execs :
        (i # j /\ inProcessFiles(i) /\ inProcessFiles(j)) =>
            ~(ex[i].reqNum = ex[j].reqNum /\ ex[i].tapeId = ex[j].tapeId)

\* an executor is processing the files of a request that addJob has set back
\* to REQ_NEW, while another executor thread is idle
C8_Witness ==
    \E i, j \in Execs : \E r \in requests :
        /\ inProcessFiles(i)
        /\ ex[j].pc = "idle"
        /\ r.reqNum = ex[i].reqNum /\ r.tapeId = ex[i].tapeId
        /\ r.state = REQ_NEW

\* C9: an event for a file that is RESIDENT gets exactly one response, a
\* success, and no job: stated for the events the receiver answered itself
\* with success (its check saw RESIDENT and it enqueued no addJob)
C9_ResidentOneSuccess ==
    \A c \in Conns :
        (c <= nIter /\ wqr[c].pc = "idle" /\ resp[c].ok > 0) =>
            (resp[c].ok = 1 /\ resp[c].fail = 0)

\* C10: a job is recorded as succeeded if and only if recall finalised its
\* file to the job's target state or to RESIDENT, or found it resident; a job
\* recorded as failed did not have its file finalised
C10_SuccessIffFinalised ==
    \A i \in Execs : \A n \in DOMAIN ex[i].resplist :
        LET e == ex[i].resplist[n] IN
        e.succeeded <=> e.fin \in {e.toState, RESIDENT, "already"}

\* no job row of tape t is in JOB_QUEUE and no addJob call for t is running
noOutstanding(t) ==
    /\ \A n \in DOMAIN jobs : jobs[n].tapeId # t
    /\ \A k \in Conns : wqr[k].pc \in {"try", "insert", "upsert"} => wqr[k].tapeId # t

\* C5: once every job of a tape has been processed and no job writer for it
\* is running any more, the system reaches and stays in a state with no
\* REQUEST_QUEUE row of that tape
C5_RequestRemoved ==
    \A t \in Tapes :
        <>[]noOutstanding(t) => <>[](\A r \in requests : r.tapeId # t)

\* a file of tape t has been recalled to resident, and t has neither a job
\* row, nor a running addJob call, nor an executor, nor a request row left
C5_Witness ==
    \E t \in Tapes :
        /\ \E f \in Files : TapeOf(f) = t /\ f # 4 /\ fstate[f] = RESIDENT
        /\ noOutstanding(t)
        /\ \A i \in Execs : ex[i].pc = "idle"
        /\ \A r \in requests : r.tapeId # t

\* C11: a migrated file whose size on tape differs from the file's size is
\* copied up to the tape size and finalised to RESIDENT whatever the target
\* state, and answered with success; a migrated file whose sizes agree is
\* finalised to the target state
C11_SizeMismatchResident ==
    /\ \A i \in Execs :
          (ex[i].pc = "copy" /\ ex[i].tsize # ex[i].fsize) =>
              (ex[i].size = ex[i].tsize /\ ex[i].toState = RESIDENT)
    /\ \A i \in Execs : \A n \in DOMAIN ex[i].resplist :
          LET e == ex[i].resplist[n] IN
          e.fin \in {RESIDENT, PREMIGRATED} =>
              IF e.differ THEN e.fin = RESIDENT /\ e.succeeded
              ELSE e.fin = e.toState

\* C12: once the copy loop of one job has read the forced-terminate flag set
\* (the job fails), processFiles starts no later job of the same execution,
\* so that none of the jobs behind the failed one is recorded as succeeded
C12_NoJobAfterForcedTerminate ==
    \A i \in Execs : \A m, n \in DOMAIN ex[i].resplist :
        (m < n /\ ex[i].resplist[m].fin = "terminated") => ~ex[i].resplist[n].succeeded

\* an addJob task of the writer pool that has been enqueued and has not ended
running(k) == wqr[k].pc \in {"try", "insert", "upsert"}

\* C13: cleanupEvents runs only after the receiver loop has ended and every
\* enqueued addJob task has completed, and when it has ended every job row
\* still in JOB_QUEUE has been sent a failure response by it
C13_CleanupAfterDrain ==
    /\ pcRun \in {"cleanup", "done"} =>
          (connectorTerminate /\ \A k \in Conns : ~running(k))
    /\ pcRun = "done" =>
          \A n \in DOMAIN jobs :
              jobs[n].rid \in cleaned /\ resp[jobs[n].conn].fail >= 1

\* cleanupEvents has ended with a job row in JOB_QUEUE, which it has answered
C13_Witness ==
    /\ pcRun = "done"
    /\ \E n \in DOMAIN jobs : jobs[n].rid \in cleaned /\ resp[jobs[n].conn].fail = 1

\* the changes of FILE_STATE a row of JOB_QUEUE may undergo
claimSteps == {<<MIGRATED, RECALLING_MIG>>, <<PREMIGRATED, RECALLING_PREMIG>>}

\* the entry a step has appended to the response list of executor i
pushed(i) == ex[i].resplist'[Len(ex[i].resplist')]

\* C14: the file_state of a job row only ever changes from MIGRATED to
\* RECALLING_MIG or from PREMIGRATED to RECALLING_PREMIG, and a file is
\* finalised (to RESIDENT or PREMIGRATED) only while its job row is in a
\* RECALLING_* state
C14_StateTransitions ==
    [][/\ \A m \in DOMAIN jobs : \A n \in DOMAIN jobs' :
             (jobs[m].rid = jobs'[n].rid /\ jobs[m].fileState # jobs'[n].fileState) =>
                 <<jobs[m].fileState, jobs'[n].fileState>> \in claimSteps
       /\ \A f \in Files : fstate'[f] # fstate[f] => fstate'[f] \in {RESIDENT, PREMIGRATED}
       /\ \A i \in Execs :
             (/\ Len(ex[i].resplist') = Len(ex[i].resplist) + 1
              /\ pushed(i).fin \in {RESIDENT, PREMIGRATED}) =>
                 \E n \in DOMAIN jobs :
                     /\ jobs[n].conn = pushed(i).conn
                     /\ jobs[n].inum = pushed(i).inum
                     /\ jobs[n].fileState \in {RECALLING_MIG, RECALLING_PREMIG}]_vars

\* a migrated file has been finalised while its job row is RECALLING_MIG,
\* and a premigrated file while its job row is RECALLING_PREMIG
C14_Witness ==
    \E i \in Execs :
        /\ Len(ex[i].resplist) = 2
        /\ \A e \in {ex[i].resplist[1], ex[i].resplist[2]} :
              /\ e.fin = RESIDENT /\ fstate[e.inum] = RESIDENT
              /\ \E n \in DOMAIN jobs :
                    /\ jobs[n].inum = e.inum
                    /\ jobs[n].fileState = IF e.inum = 1 THEN RECALLING_MIG
                                           ELSE RECALLING_PREMIG

\* the step in which processFiles of executor i delivers its responses
delivers(i) ==
    /\ ex[i].pc = "step"
    /\ ex'[i].pc = "lock"
    /\ ex[i].resplist # <<>>

\* q holds no RECALLING_* row of the request executor i runs
claimedGone(q, i) ==
    \A n \in DOMAIN q : ~isRecalling(q[n], ex[i].reqNum, ex[i].tapeId)

\* the rows of REQUEST_QUEUE rq of the request executor i runs
requestOf(rq, i) == {r \in rq : r.reqNum = ex[i].reqNum /\ r.tapeId = ex[i].tapeId}

\* C15 as stated: at the moment a response of an execution is delivered the
\* RECALLING_* jobs of its (reqNum, tapeId) have been deleted and its request
\* row has been reset to REQ_NEW or deleted
C15_ResponsesAfterMutations ==
    [][\A i \in Execs :
        delivers(i) =>
            /\ claimedGone(jobs', i)
            /\ \A r \in requestOf(requests', i) : r.state = REQ_NEW]_vars

\* C15 as amended: at the moment a response of an execution is delivered the
\* RECALLING_* jobs of its (reqNum, tapeId) have been deleted, while its
\* request row is still in REQUEST_QUEUE: execRequest resets or deletes it
\* afterwards
C15_ResponsesAfterJobDelete ==
    [][\A i \in Execs :
        delivers(i) =>
            /\ claimedGone(jobs', i)
            /\ requestOf(requests', i) # {}
            /\ ex'[i].pc = "lock"]_vars

\* an execution has delivered a success response and deleted its jobs, and
\* execRequest has not yet taken Scheduler::mtx: the request row is still
\* REQ_INPROGRESS
C15_Witness ==
    \E i \in Execs :
        /\ ex[i].pc = "lock"
        /\ claimedGone(jobs, i)
        /\ \E r \in requestOf(requests, i) : r.state = REQ_INPROGRESS
        /\ \E c \in Conns : resp[c].ok = 1 /\ wqr[c].pc = "done"

\* the job rows of the request executor i runs
jobsOf(i) ==
    {n \in DOMAIN jobs : jobs[n].reqNum = ex[i].reqNum /\ jobs[n].tapeId = ex[i].tapeId}

\* C16: execRequest counts the jobs of its request under Scheduler::mtx and,
\* still holding it, leaves the request row REQ_NEW if and only if the count
\* was not zero and otherwise deletes it; the row is never left
\* REQ_INPROGRESS, and the mutex is released after the notification
C16_ExecRequestEndState ==
    [][\A i \in Execs :
        /\ (ex[i].pc = "lock" /\ ex'[i].pc = "end") =>
              (mtx' = i /\ ex'[i].remaining = Cardinality(jobsOf(i)))
        /\ (ex[i].pc = "end" /\ ex'[i].pc = "idle") =>
              /\ mtx = i /\ mtx' = 0
              /\ IF ex[i].remaining > 0
                 THEN /\ requestOf(requests', i) # {}
                      /\ \A r \in requestOf(requests', i) : r.state = REQ_NEW
                 ELSE requestOf(requests', i) = {}]_vars

\* an execution has answered one job and ended while the job of a second
\* event, inserted meanwhile, remained: its request row is REQ_NEW although
\* the writer of the second event has not made its upsert yet
C16_Witness ==
    /\ mtx = 0
    /\ \A i \in Execs : ex[i].pc = "idle"
    /\ Len(jobs) = 1
    /\ \E k \in Conns :
          /\ wqr[k].pc = "upsert"
          /\ \E r \in requests : /\ r.reqNum = wqr[k].reqNum
                                  /\ r.tapeId = wqr[k].tapeId
                                  /\ r.state = REQ_NEW
    /\ \E c \in Conns : resp[c].ok = 1 /\ wqr[c].pc = "done"

\* executor i is inside recall: called for the next row, or in its copy loop
inRecall(i) == ex[i].pc = "copy" \/ (ex[i].pc = "step" /\ ex[i].todo # <<>>)

\* C17: an executor that is inside recall (opening or reading the tape
\* object, writing the file) does not hold Scheduler::mtx
C17_NoMutexAcrossTapeIO ==
    \A i \in Execs : inRecall(i) => mtx # i

\* while a recall copies, an addJob call is at its request upsert and
\* Scheduler::mtx is free for it
C17_Witness ==
    /\ mtx = 0
    /\ \E i \in Execs : ex[i].pc = "copy"
    /\ \E k \in Conns : wqr[k].pc = "upsert"

\* C18: the executor holds Scheduler::mtx while it claims the jobs of its
\* request (the two SET_RECALLING updates) and while it bulk-deletes the
\* RECALLING_* jobs, as it does for the count and the request reset or delete
C18_MutexInPhaseAandC ==
    [][\A i \in Execs :
        /\ (ex[i].pc = "setRecalling" /\ ex'[i].pc = "step") => mtx = i
        /\ (ex[i].pc = "step" /\ ex'[i].pc = "lock") => mtx = i
        /\ (ex[i].pc = "end" /\ ex'[i].pc = "idle") => mtx = i]_vars

\* C19: an addJob call in which stat, the migration-state read, the
\* attribute read or the tape-name resolution has thrown returns without a
\* write: JOB_QUEUE holds no row of it and it never reaches the request upsert
C19_FailedWriterWritesNothing ==
    \A k \in Conns :
        wqr[k].caught # "no" =>
            (wqr[k].pc # "upsert" /\ \A n \in DOMAIN jobs : jobs[n].rid # k)

\* C20 as stated: an event with inum 0 gets no response, no job and no
\* request number in any state, also after the terminate flag has been set
C20_MalformedIgnored ==
    (recinfo.conn # 0 /\ recinfo.inum = 0) =>
        (responses(recinfo.conn) = 0 /\ wqr[recinfo.conn].pc = "idle")

\* an iteration of the receiver loop that handles an event with inum 0
malformed ==
    /\ nIter' = nIter + 1
    /\ recinfo'.conn # 0
    /\ recinfo'.inum = 0

\* C20 as amended: an event with inum 0 produces no job, no request and no
\* request number in any state; it produces no response while the terminate
\* flag is not set, and a failure response once the flag is set
C20_MalformedIgnoredUnlessTerminate ==
    [][malformed =>
        /\ wqr' = wqr /\ jobs' = jobs /\ requests' = requests
        /\ reqmap' = reqmap /\ globalReqNumber' = globalReqNumber
        /\ resp' = IF terminate THEN respondRecallEvent(resp, recinfo'.conn, FALSE)
                   ELSE resp]_vars

\* the receiver has handled an event with inum 0 while the terminate flag
\* was not set, and has sent no response for it
C20_Witness ==
    /\ ~terminate
    /\ recinfo.conn = nIter
    /\ recinfo.conn # 0
    /\ recinfo.inum = 0
    /\ responses(recinfo.conn) = 0

\* C21: an entry of reqmap is created with the next value of the global
\* counter and is never changed or removed afterwards; two tapes never have
\* the same request number, and every job and every enqueued addJob task of
\* a tape has the request number of the tape's entry
C21_ReqmapStable ==
    [][/\ \A tp \in Tapes :
             IF reqmap[tp] # 0 THEN reqmap'[tp] = reqmap[tp]
             ELSE reqmap'[tp] # 0 =>
                     (reqmap'[tp] = globalReqNumber + 1 /\ globalReqNumber' = reqmap'[tp])
       /\ \A t1, t2 \in Tapes :
             (t1 # t2 /\ reqmap'[t1] # 0) => reqmap'[t1] # reqmap'[t2]
       /\ \A n \in DOMAIN jobs' : jobs'[n].reqNum = reqmap'[jobs'[n].tapeId]
       /\ \A k \in Conns :
             running(k)' => wqr'[k].reqNum = reqmap'[wqr'[k].tapeId]]_vars

\* the jobs of two events for files of one tape are in JOB_QUEUE, both with
\* the request number the tape's entry got at the first event
C21_Witness ==
    /\ Len(jobs) = 2
    /\ jobs[1].inum # jobs[2].inum
    /\ jobs[1].tapeId = jobs[2].tapeId
    /\ jobs[1].reqNum = reqmap[jobs[1].tapeId]
    /\ jobs[2].reqNum = reqmap[jobs[1].tapeId]
    /\ globalReqNumber = 1

\* a step in which a recall of executor i ends with a failure
jobFails(i) ==
    /\ Len(ex[i].resplist') = Len(ex[i].resplist) + 1
    /\ ~pushed(i).succeeded

\* C22: a failed recall fails only its job: the failure is appended to the
\* response list, the entries recorded before stay as they are, the jobs
\* behind it are still to be recalled, neither queue is written, and
\* processFiles goes on to its next row or to its finalisation
C22_FailureIsolated ==
    [][\A i \in Execs :
        jobFails(i) =>
            /\ pushed(i).conn = Head(ex[i].todo).conn
            /\ SubSeq(ex[i].resplist', 1, Len(ex[i].resplist)) = ex[i].resplist
            /\ ex'[i].todo = Tail(ex[i].todo)
            /\ ex'[i].pc = "step"
            /\ jobs' = jobs /\ requests' = requests /\ resp' = resp]_vars

\* the first job of an execution failed on the tape (open, read or write
\* error) with no termination forced, and the job behind it has been
\* recalled with success: processFiles is at its finalisation
C22_Witness ==
    \E i \in Execs :
        /\ ex[i].pc = "step"
        /\ ex[i].todo = <<>>
        /\ ~forcedTerminate
        /\ Len(ex[i].resplist) = 2
        /\ ~ex[i].resplist[1].succeeded
        /\ ex[i].resplist[1].fin = "none"
        /\ fstate[ex[i].resplist[1].inum] = MIGRATED
        /\ ex[i].resplist[2].succeeded
        /\ ex[i].resplist[2].fin = RESIDENT

\* thread t is between its successful beginTransaction and its endTransaction
inTrans(t) == dbt[t].pc = "trans"

\* C23: trans_mutex is held by a thread exactly while it is between a
\* successful beginTransaction and its endTransaction: at most one thread is
\* inside a transaction, and after a failed BEGIN, a failed END or a
\* successful END the thread does not hold the mutex
C23_TransMutexHeldInTransaction ==
    /\ \A t \in DbThreads : inTrans(t) <=> trans_mutex = t
    /\ \A t1, t2 \in DbThreads : (inTrans(t1) /\ inTrans(t2)) => t1 = t2
    /\ (\A t \in DbThreads : ~inTrans(t)) => trans_mutex = 0

\* one thread's END has failed and another thread's BEGIN has failed, and a
\* third thread is inside a transaction, holding the mutex
C23_Witness ==
    \E t1, t2, t3 \in DbThreads :
        /\ dbt[t1].rc = "endThrew"
        /\ dbt[t2].rc = "beginThrew"
        /\ inTrans(t3)
        /\ trans_mutex = t3

\* row is a row of the request executor i runs, in a RECALLING_* state
claimedRow(row, i) ==
    /\ row.reqNum = ex[i].reqNum
    /\ row.tapeId = ex[i].tapeId
    /\ row.fileState \in {RECALLING_MIG, RECALLING_PREMIG}

\* the rows processFiles of executor i has recalled or has still to recall
handled(i) ==
    {ex[i].resplist[n].conn : n \in DOMAIN ex[i].resplist}
        \cup {ex[i].todo[n].conn : n \in DOMAIN ex[i].todo}

\* C24: processFiles takes every RECALLING_* row of its request at its claim,
\* gives each of them exactly one entry of the response list (also when
\* termination is forced), and at its return deletes the RECALLING_* rows of
\* its request and no other row, and sends one response per entry and no other
C24_ProcessFilesFrame ==
    [][\A i \in Execs :
        /\ (ex[i].pc = "setRecalling" /\ ex'[i].pc = "step") =>
              /\ \A n \in DOMAIN jobs' :
                    (/\ jobs'[n].reqNum = ex[i].reqNum
                     /\ jobs'[n].tapeId = ex[i].tapeId
                     /\ jobs'[n].fileState \in {RECALLING_MIG, RECALLING_PREMIG}) =>
                        \E m \in DOMAIN ex'[i].todo : ex'[i].todo[m] = jobs'[n]
              /\ \A m \in DOMAIN ex'[i].todo :
                    \E n \in DOMAIN jobs' : ex'[i].todo[m] = jobs'[n]
              /\ ex'[i].resplist = <<>>
        /\ (inProcessFiles(i) /\ ex'[i].pc \in {"step", "copy"}) =>
              /\ handled(i)' = handled(i) \/ ex[i].pc = "setRecalling"
              /\ Cardinality(handled(i)') = Len(ex'[i].resplist) + Len(ex'[i].todo)
        /\ (ex[i].pc = "step" /\ ex'[i].pc = "lock") =>
              /\ ex[i].todo = <<>>
              /\ jobs' = SelectSeq(jobs, LAMBDA row : ~claimedRow(row, i))
              /\ \A c \in Conns :
                    /\ resp'[c].ok - resp[c].ok =
                          Cardinality({n \in DOMAIN ex[i].resplist :
                              ex[i].resplist[n].conn = c /\ ex[i].resplist[n].succeeded})
                    /\ resp'[c].fail - resp[c].fail =
                          Cardinality({n \in DOMAIN ex[i].resplist :
                              ex[i].resplist[n].conn = c /\ ~ex[i].resplist[n].succeeded})]_vars

\* processFiles has returned after a forced termination: the claimed job has
\* been answered with failure and deleted, and a job of the same request
\* inserted after the claim is still in JOB_QUEUE, unclaimed and unanswered
C24_Witness ==
    \E i \in Execs :
        /\ ex[i].pc = "lock"
        /\ forcedTerminate
        /\ Len(jobs) = 1
        /\ jobs[1].reqNum = ex[i].reqNum /\ jobs[1].tapeId = ex[i].tapeId
        /\ jobs[1].fileState \in {MIGRATED, PREMIGRATED}
        /\ responses(jobs[1].conn) = 0
        /\ \E c \in Conns : resp[c] = [ok |-> 0, fail |-> 1] /\ wqr[c].pc = "done"

====
